---------------------------- MODULE Spec2Model ----------------------------
(***************************************************************************)
(* A model of openapi-to-wxrequest.js: the generator that turns an OpenAPI *)
(* 3.0.x document into a module of wx.request client methods.              *)
(*                                                                         *)
(* JavaScript strings are modelled as sequences of one-character strings,  *)
(* so that the regular-expression replacements, splits and case mappings   *)
(* of the source are computed character by character.                      *)
(***************************************************************************)
EXTENDS Naturals, Sequences, FiniteSets, TLC

(***************************************************************************)
(* Bounds of the model.                                                    *)
(***************************************************************************)
\* longest parameter name handed to normalizeParamName by the probe
MaxNameLen == 3
\* longest path handed to the naming of an operation
MaxNamePathLen == 5
\* longest path (after its leading slash) whose URL template is emitted
MaxUrlPathLen == 6
\* deepest nesting of arrays and objects in the schema nodes tried
MaxSchemaDepth == 2
\* most parameters of the operation handed to generateFunction
MaxParams == 2
\* most paths of a document handed to the driver
MaxPaths == 2

(***************************************************************************)
(* Characters and the string built-ins the source uses.                    *)
(***************************************************************************)
Lower == <<"a","b","c","d","e","f","g","h","i","j","k","l","m",
           "n","o","p","q","r","s","t","u","v","w","x","y","z">>
Upper == <<"A","B","C","D","E","F","G","H","I","J","K","L","M",
           "N","O","P","Q","R","S","T","U","V","W","X","Y","Z">>
Digit == {"0","1","2","3","4","5","6","7","8","9"}

IsLower(c) == \E i \in 1..Len(Lower) : Lower[i] = c
IsUpper(c) == \E i \in 1..Len(Upper) : Upper[i] = c
IsLetter(c) == IsLower(c) \/ IsUpper(c)
IsDigit(c) == c \in Digit
\* the class [a-zA-Z0-9]
IsAlnum(c) == IsLetter(c) \/ IsDigit(c)
\* the class [a-zA-Z0-9_$]
IsWordChar(c) == IsAlnum(c) \/ c \in {"_", "$"}

\* String.prototype.toUpperCase / toLowerCase on one character
toUpperCaseChar(c) ==
  IF IsLower(c) THEN Upper[CHOOSE i \in 1..Len(Lower) : Lower[i] = c] ELSE c
toLowerCaseChar(c) ==
  IF IsUpper(c) THEN Lower[CHOOSE i \in 1..Len(Upper) : Upper[i] = c] ELSE c
toUpperCase(s) == [i \in 1..Len(s) |-> toUpperCaseChar(s[i])]
toLowerCase(s) == [i \in 1..Len(s) |-> toLowerCaseChar(s[i])]

\* String.prototype.includes for a one-character needle
includes(s, c) == \E i \in 1..Len(s) : s[i] = c

\* every string over alphabet A of length lo..hi
Strings(A, lo, hi) == UNION {[1..n -> A] : n \in lo..hi}

\* the value JavaScript calls undefined, and "no result yet"
Undefined == <<"undefined">>
None == <<"none">>

(***************************************************************************)
(* normalizeParamName (source lines 162-177).                              *)
(***************************************************************************)
\* name.replace(/[^a-zA-Z0-9_$]/g, '_')
replaceInvalidChars(name) ==
  [i \in 1..Len(name) |-> IF IsWordChar(name[i]) THEN name[i] ELSE "_"]

\* if (/^\d/.test(normalized)) normalized = '_' + normalized
prefixLeadingDigit(normalized) ==
  IF Len(normalized) > 0 /\ IsDigit(normalized[1])
    THEN <<"_">> \o normalized
    ELSE normalized

\* normalized.replace(/[_-]([a-zA-Z0-9])/g, (_, char) => char.toUpperCase()):
\* leftmost, non-overlapping matches, scanned from the left
RECURSIVE replaceCamelCase(_)
replaceCamelCase(s) ==
  IF s = <<>> THEN <<>>
  ELSE IF s[1] \in {"_", "-"} /\ Len(s) >= 2 /\ IsAlnum(s[2])
    THEN <<toUpperCaseChar(s[2])>> \o replaceCamelCase(SubSeq(s, 3, Len(s)))
    ELSE <<s[1]>> \o replaceCamelCase(Tail(s))

normalizeParamName(name) ==
  LET normalized == prefixLeadingDigit(replaceInvalidChars(name))
  IN  IF includes(name, "-") \/ includes(name, "_")
        THEN replaceCamelCase(normalized)
        ELSE normalized

(***************************************************************************)
(* The regular expression /{([^}]+)}/g of lines 237 and 372, as the        *)
(* sequence of parts it cuts a string into: a matched placeholder (with    *)
(* the text captured between the braces) or one character left as it is.   *)
(* A match starts at a "{", runs over one or more characters other than    *)
(* "}" and ends at the first "}" after them; matches are leftmost and do   *)
(* not overlap.                                                            *)
(***************************************************************************)
\* the index of the first "}" of s after position 1, or 0
firstCloseBrace(s) ==
  IF \E j \in 2..Len(s) : s[j] = "}"
    THEN CHOOSE j \in 2..Len(s) : s[j] = "}" /\ \A k \in 2..(j-1) : s[k] # "}"
    ELSE 0

RECURSIVE matchPlaceholders(_)
matchPlaceholders(s) ==
  IF s = <<>> THEN <<>>
  ELSE LET j == firstCloseBrace(s)
       IN  IF s[1] = "{" /\ j > 2
             THEN <<[match |-> TRUE, text |-> SubSeq(s, 2, j - 1)]>>
                    \o matchPlaceholders(SubSeq(s, j + 1, Len(s)))
             ELSE <<[match |-> FALSE, text |-> <<s[1]>>]>>
                    \o matchPlaceholders(Tail(s))

\* the concatenation of a sequence of strings (Array.prototype.join(''))
RECURSIVE joinEmpty(_)
joinEmpty(ss) == IF ss = <<>> THEN <<>> ELSE Head(ss) \o joinEmpty(Tail(ss))

\* String.prototype.split for a one-character separator
RECURSIVE split(_, _)
split(s, sep) ==
  IF ~includes(s, sep) THEN <<s>>
  ELSE LET i == CHOOSE k \in 1..Len(s) : s[k] = sep /\ \A m \in 1..(k-1) : s[m] # sep
       IN  <<SubSeq(s, 1, i - 1)>> \o split(SubSeq(s, i + 1, Len(s)), sep)

(***************************************************************************)
(* generateFunctionNameFromPath (source lines 370-386).                    *)
(***************************************************************************)
\* path.replace(/^\//, '')
removeLeadingSlash(path) ==
  IF Len(path) > 0 /\ path[1] = "/" THEN Tail(path) ELSE path

\* .replace(/{([^}]+)}/g, '$1')
removeBraces(s) ==
  LET parts == matchPlaceholders(s)
  IN  joinEmpty([i \in 1..Len(parts) |-> parts[i].text])

\* the alternative of line 381 a slip would give: the rest of the part kept
camelCasePartKeepRest(part, index) ==
  IF index = 0 THEN toLowerCase(part)
  ELSE IF part = <<>> THEN <<>>
  ELSE <<toUpperCaseChar(part[1])>> \o Tail(part)

\* the callback of parts.map (lines 376-382); index counts from 0
camelCasePart(part, index) ==
  IF index = 0 THEN toLowerCase(part)
  ELSE IF part = <<>> THEN <<>>
  ELSE <<toUpperCaseChar(part[1])>> \o toLowerCase(Tail(part))

generateFunctionNameFromPath(method, path) ==
  LET cleanPath == removeBraces(removeLeadingSlash(path))
      parts == split(cleanPath, "/")
      camelCaseParts == [i \in 1..Len(parts) |-> camelCasePart(parts[i], i - 1)]
  IN  toLowerCase(method) \o joinEmpty(camelCaseParts)

\* a JavaScript value used as a condition: undefined and '' are falsy
truthy(v) == v # Undefined /\ v # <<>>

\* line 190: operation.operationId || generateFunctionNameFromPath(method, path)
functionNameOf(operationId, method, path) ==
  IF truthy(operationId) THEN operationId
  ELSE generateFunctionNameFromPath(method, path)

(***************************************************************************)
(* JavaScript objects are records; a property that is not there reads as   *)
(* Absent (undefined).  Ordered mappings whose order matters to the        *)
(* generator (paths, path items, content, properties) are sequences of     *)
(* key/value records in declaration order.                                 *)
(***************************************************************************)
Absent == [undefined |-> TRUE]
\* obj[key]
Get(obj, key) == IF key \in DOMAIN obj THEN obj[key] ELSE Absent

S_components == <<"c","o","m","p","o","n","e","n","t","s">>
S_schemas == <<"s","c","h","e","m","a","s">>
S_Foo == <<"F","o","o">>
S_Bar == <<"B","a","r">>
S_Arr == <<"A","r","r">>
S_Obj == <<"O","b","j">>
S_Loop == <<"L","o","o","p">>
S_Nope == <<"N","o","p","e">>

\* the property key a path segment names
KeyOf(segment) ==
  CASE segment = S_components -> "components"
    [] segment = S_schemas -> "schemas"
    [] segment = S_Foo -> "Foo"
    [] segment = S_Bar -> "Bar"
    [] segment = S_Arr -> "Arr"
    [] segment = S_Obj -> "Obj"
    [] segment = S_Loop -> "Loop"
    [] OTHER -> "(no such key)"

\* '#/components/schemas/<name>'
RefTo(name) ==
  <<"#", "/">> \o S_components \o <<"/">> \o S_schemas \o <<"/">> \o name

(***************************************************************************)
(* resolveSchema (source lines 394-411).                                   *)
(***************************************************************************)
\* String.prototype.replace('#/', ''): the first occurrence is removed
removeHashSlash(ref) ==
  IF \E i \in 1..(Len(ref) - 1) : ref[i] = "#" /\ ref[i + 1] = "/"
    THEN LET i == CHOOSE k \in 1..(Len(ref) - 1) :
                    /\ ref[k] = "#" /\ ref[k + 1] = "/"
                    /\ \A m \in 1..(k - 1) : ~(ref[m] = "#" /\ ref[m + 1] = "/")
         IN  SubSeq(ref, 1, i - 1) \o SubSeq(ref, i + 2, Len(ref))
    ELSE ref

\* the loop of lines 399-406: Absent when a segment is missing
RECURSIVE walk(_, _)
walk(resolved, refPath) ==
  IF refPath = <<>> THEN resolved
  ELSE LET next == Get(resolved, KeyOf(Head(refPath)))
       IN  IF next = Absent THEN Absent ELSE walk(next, Tail(refPath))

\* an exception: what a recursion that never returns ends in (the stack
\* overflows, a RangeError), and what reading a property of undefined gives
Thrown == [thrown |-> TRUE]
SchemaAny == [type |-> "any"]

\* resolveSchema with the number of nested calls the stack still allows
RECURSIVE resolveSchemaDepth(_, _, _)
resolveSchemaDepth(spec, schema, depth) ==
  IF schema = Absent THEN SchemaAny
  ELSE IF "ref" \in DOMAIN schema
    THEN LET refPath == split(removeHashSlash(schema.ref), "/")
             resolved == walk(spec, refPath)
         IN  IF resolved = Absent THEN SchemaAny
             ELSE IF depth = 0 THEN Thrown
             ELSE resolveSchemaDepth(spec, resolved, depth - 1)
    ELSE schema

\* a chain of references longer than the document has schemas is a cycle
resolveSchema(spec, schema) ==
  resolveSchemaDepth(spec, schema,
                     Cardinality(DOMAIN Get(Get(spec, "components"), "schemas")))

(***************************************************************************)
(* getTypeFromSchema (source lines 418-448).                               *)
(***************************************************************************)
S_any == <<"a","n","y">>
S_number == <<"n","u","m","b","e","r">>
S_string == <<"s","t","r","i","n","g">>
S_boolean == <<"b","o","o","l","e","a","n">>
S_null == <<"n","u","l","l">>
S_object == <<"o","b","j","e","c","t">>
S_Array == <<"A","r","r","a","y">>

\* typeMap[schema.type] || 'any'
typeMap(type) ==
  CASE type = "integer" -> S_number
    [] type = "number" -> S_number
    [] type = "string" -> S_string
    [] type = "boolean" -> S_boolean
    [] type = "null" -> S_null
    [] OTHER -> S_any

\* Array.prototype.join for a separator string
RECURSIVE join(_, _)
join(ss, sep) ==
  IF ss = <<>> THEN <<>>
  ELSE IF Len(ss) = 1 THEN ss[1]
  ELSE ss[1] \o sep \o join(Tail(ss), sep)

\* schema.type, a type name or nothing
typeField(schema) ==
  IF "type" \in DOMAIN schema THEN schema.type ELSE "(undefined)"

RECURSIVE getTypeFromSchema(_)
getTypeFromSchema(schema) ==
  IF schema = Absent THEN S_any
  ELSE IF typeField(schema) = "array"
    THEN LET itemType == IF "items" \in DOMAIN schema
                           THEN getTypeFromSchema(schema.items)
                           ELSE S_any
         IN  S_Array \o <<"<">> \o itemType \o <<">">>
  ELSE IF typeField(schema) = "object"
          \/ ("type" \notin DOMAIN schema /\ "properties" \in DOMAIN schema)
    THEN IF "properties" \in DOMAIN schema
           THEN LET entries == schema.properties
                    isRequired(name) ==
                      "required" \in DOMAIN schema /\ name \in schema.required
                    props == [i \in 1..Len(entries) |->
                                entries[i].name
                                  \o (IF isRequired(entries[i].name) THEN <<>> ELSE <<"?">>)
                                  \o <<":", " ">>
                                  \o getTypeFromSchema(entries[i].schema)]
                IN  <<"{">> \o join(props, <<",", " ">>) \o <<"}">>
           ELSE S_object
  ELSE typeMap(typeField(schema))

\* lines 325-326, 337-338 and 350-351: the type written into the doc comment
\* for a schema of the document, or S_Throws when the lookup throws
S_Throws == <<"(throws)">>
typeOfSchema(spec, schema) ==
  LET resolved == resolveSchema(spec, schema)
  IN  IF resolved = Thrown THEN S_Throws ELSE getTypeFromSchema(resolved)

(***************************************************************************)
(* The schemas the model's documents declare under components.schemas, and *)
(* the schema nodes tried against them.                                    *)
(***************************************************************************)
ComponentSchemas ==
  [Foo |-> [type |-> "string"],
   Bar |-> [ref |-> RefTo(S_Foo)],
   Arr |-> [type |-> "array", items |-> [ref |-> RefTo(S_Foo)]],
   Obj |-> [type |-> "object",
            properties |-> <<[name |-> <<"a">>, schema |-> [type |-> "integer"]]>>,
            required |-> {<<"a">>}],
   Loop |-> [ref |-> RefTo(S_Loop)]]

SchemaDoc == [components |-> [schemas |-> ComponentSchemas]]

\* references: to each declared schema, to a schema that is not declared,
\* and through a first segment that is not in the document
RefCatalog ==
  {RefTo(S_Foo), RefTo(S_Bar), RefTo(S_Arr), RefTo(S_Obj), RefTo(S_Loop),
   RefTo(S_Nope), <<"#", "/", "x", "/">> \o S_Foo}

BaseSchemas ==
  {[type |-> t] : t \in {"integer", "number", "string", "boolean", "null",
                          "file", "object"}}
    \cup {[ref |-> r] : r \in RefCatalog}
    \cup {[description |-> "no type"], [type |-> "array"]}

RECURSIVE SchemasOfDepth(_)
SchemasOfDepth(d) ==
  IF d = 0 THEN BaseSchemas
  ELSE LET S == SchemasOfDepth(d - 1)
           a(x) == [name |-> <<"a">>, schema |-> x]
           b == [name |-> <<"b">>, schema |-> [type |-> "string"]]
       IN  S \cup {[type |-> "array", items |-> x] : x \in S}
             \cup {[type |-> "object", properties |-> <<a(x)>>,
                     required |-> {<<"a">>}] : x \in S}
             \cup {[properties |-> <<a(x), b>>] : x \in S}
             \cup {[type |-> "object", properties |-> <<b, a(x)>>,
                     required |-> {<<"b">>}] : x \in S}

(***************************************************************************)
(* The URL template of a generated method (source lines 235-240): the text *)
(* emitted between the backticks of `let url = ...`.                       *)
(***************************************************************************)
S_BASE_URL == <<"B","A","S","E","_","U","R","L">>

\* `\${${x}}`: the text of a template-literal substitution of expression x
interpolation(x) == <<"$", "{">> \o x \o <<"}">>

\* the replacement a slip would give: the placeholder's name as it is written
urlPlaceholderRaw(paramName) == interpolation(paramName)

\* the callback of path.replace (lines 237-240)
urlPlaceholder(paramName) == interpolation(normalizeParamName(paramName))

urlTemplate(path) ==
  LET parts == matchPlaceholders(path)
  IN  interpolation(S_BASE_URL)
        \o joinEmpty([i \in 1..Len(parts) |->
                        IF parts[i].match THEN urlPlaceholder(parts[i].text)
                                          ELSE parts[i].text])

(***************************************************************************)
(* generateJSDoc (source lines 308-362): the @param and @returns entries   *)
(* of the doc comment, or Thrown when computing one throws.                *)
(***************************************************************************)
S_applicationJson ==
  <<"a","p","p","l","i","c","a","t","i","o","n","/","j","s","o","n">>
S_applicationXml ==
  <<"a","p","p","l","i","c","a","t","i","o","n","/","x","m","l">>
S_requestData == <<"r","e","q","u","e","s","t","D","a","t","a">>

\* (operation.parameters || []).filter(p => p.in === location)
paramsIn(operation, location) ==
  SelectSeq(IF "parameters" \in DOMAIN operation THEN operation.parameters ELSE <<>>,
            LAMBDA p : p.in = location)

\* Object.keys(content)[0] || 'application/json' for a content mapping
firstContentType(content) ==
  IF content # <<>> /\ truthy(content[1].key) THEN content[1].key
  ELSE S_applicationJson

\* content[contentType]: the first value stored under that key, if any
contentEntry(content, contentType) ==
  IF \E i \in 1..Len(content) : content[i].key = contentType
    THEN content[CHOOSE i \in 1..Len(content) :
                   /\ content[i].key = contentType
                   /\ \A j \in 1..(i - 1) : content[j].key # contentType].value
    ELSE Absent

\* lines 336-338 and 347-350: the type of the first content entry of a
\* request body or response.  Object.keys(undefined) throws, and so does
\* reading .schema of an entry that is not there.
contentType_type(spec, holder, whenNoSchema) ==
  IF "content" \notin DOMAIN holder THEN S_Throws
  ELSE LET entry == contentEntry(holder.content, firstContentType(holder.content))
       IN  IF entry = Absent THEN S_Throws
           ELSE IF "schema" \notin DOMAIN entry THEN whenNoSchema
           ELSE typeOfSchema(spec, entry.schema)

\* obj.required as a condition
isRequired(obj) == "required" \in DOMAIN obj /\ obj.required

paramDoc(spec, param) ==
  [tag |-> "param",
   name |-> normalizeParamName(param.name),
   type |-> typeOfSchema(spec, Get(param, "schema")),
   optional |-> ~isRequired(param)]

generateJSDoc(spec, operation, pathParams, queryParams, headerParams, requestBody) ==
  LET allParams == pathParams \o queryParams \o headerParams
      paramDocs == [i \in 1..Len(allParams) |-> paramDoc(spec, allParams[i])]
      bodyDocs ==
        IF requestBody = Absent THEN <<>>
        ELSE <<[tag |-> "param",
                name |-> S_requestData,
                type |-> contentType_type(spec, requestBody, S_any),
                optional |-> ~isRequired(requestBody)]>>
      successResponse ==
        IF "responses" \in DOMAIN operation THEN Get(operation.responses, "200")
        ELSE Absent
      returnDoc ==
        [tag |-> "returns",
         name |-> <<>>,
         type |-> IF successResponse # Absent /\ "content" \in DOMAIN successResponse
                    THEN contentType_type(spec, successResponse, S_any)
                    ELSE S_any,
         optional |-> FALSE]
      jsDoc == paramDocs \o bodyDocs \o <<returnDoc>>
  IN  IF \E i \in 1..Len(jsDoc) : jsDoc[i].type = S_Throws
        THEN Thrown
        ELSE [entries |-> jsDoc]

(***************************************************************************)
(* generateFunction (source lines 188-296).  The emitted method is kept as *)
(* the statements it is made of, in the order they are written:            *)
(*   target       the name after `client.` (line 202)                      *)
(*   destructure  the entries of `const { ... } = params` (lines 205-233), *)
(*                <<>> when the statement is not emitted                   *)
(*   url          the text of the template literal of `let url` (237-240)  *)
(*   query        the `if (id !== undefined) queryString.push(...)`        *)
(*                statements (lines 243-255)                               *)
(*   options      the properties of the `options` object literal, in the   *)
(*                order written, duplicates included (lines 259-288)       *)
(***************************************************************************)
\* the identifier of a destructuring entry the way a slip would write it
destructureEntryRaw(param, withDefault) ==
  [id |-> param.name, default |-> withDefault /\ ~isRequired(param)]

\* lines 211-212, 217-218, 223-224
destructureEntry(param, withDefault) ==
  [id |-> normalizeParamName(param.name),
   default |-> withDefault /\ ~isRequired(param)]

destructuring(pathParams, queryParams, headerParams, requestBody) ==
  [i \in 1..Len(pathParams) |-> destructureEntry(pathParams[i], FALSE)]
    \o [i \in 1..Len(queryParams) |-> destructureEntry(queryParams[i], TRUE)]
    \o [i \in 1..Len(headerParams) |-> destructureEntry(headerParams[i], TRUE)]
    \o (IF requestBody # Absent
          THEN <<[id |-> S_requestData, default |-> ~isRequired(requestBody)]>>
          ELSE <<>>)

\* the statement a slip would give: the identifier used as the wire name
queryPushNormalized(param) ==
  [name |-> normalizeParamName(param.name), id |-> normalizeParamName(param.name)]

\* lines 247-250: the wire name is param.name, the value the identifier's
queryPush(param) ==
  [name |-> param.name, id |-> normalizeParamName(param.name)]

\* lines 268 and 281: 'param.name': normalizedName
headerEntry(param) ==
  [key |-> param.name, literal |-> FALSE, text |-> normalizeParamName(param.name)]

S_ContentType == <<"C","o","n","t","e","n","t","-","T","y","p","e">>

\* a slip: the header parameters left out of the body's header literal
bodyHeaderNoParams(requestBody, headerParams) ==
  <<[key |-> S_ContentType, literal |-> TRUE,
     text |-> firstContentType(requestBody.content)]>>

\* lines 275-284: the header literal written when there is a request body
bodyHeader(requestBody, headerParams) ==
  <<[key |-> S_ContentType, literal |-> TRUE,
     text |-> firstContentType(requestBody.content)]>>
    \o [i \in 1..Len(headerParams) |-> headerEntry(headerParams[i])]

optionsLiteral(method, headerParams, requestBody) ==
  <<[key |-> "url"], [key |-> "method", text |-> toUpperCase(method)]>>
    \o (IF Len(headerParams) > 0
          THEN <<[key |-> "header",
                  entries |-> [i \in 1..Len(headerParams) |->
                                 headerEntry(headerParams[i])]]>>
          ELSE <<>>)
    \o (IF requestBody # Absent
          THEN <<[key |-> "header", entries |-> bodyHeader(requestBody, headerParams)],
                 [key |-> "data", text |-> S_requestData]>>
          ELSE <<>>)

generateFunction(spec, path, method, operation) ==
  LET functionName == functionNameOf(IF "operationId" \in DOMAIN operation
                                       THEN operation.operationId ELSE Undefined,
                                     method, path)
      pathParams == paramsIn(operation, "path")
      queryParams == paramsIn(operation, "query")
      headerParams == paramsIn(operation, "header")
      requestBody == Get(operation, "requestBody")
      jsDoc == generateJSDoc(spec, operation, pathParams, queryParams,
                             headerParams, requestBody)
  IN  IF jsDoc = Thrown THEN Thrown
      ELSE [name |-> functionName,
            code |-> [jsDoc |-> jsDoc.entries,
                      target |-> functionName,
                      destructure |-> destructuring(pathParams, queryParams,
                                                    headerParams, requestBody),
                      url |-> urlTemplate(path),
                      query |-> [i \in 1..Len(queryParams) |->
                                   queryPush(queryParams[i])],
                      options |-> optionsLiteral(method, headerParams, requestBody)]]

(***************************************************************************)
(* How JavaScript reads a template literal: a "${" opens a substitution    *)
(* whose expression runs to the next "}"; every other character stands for *)
(* itself.  (The generator emits only identifiers as expressions.)         *)
(***************************************************************************)
RECURSIVE parseTemplate(_)
parseTemplate(t) ==
  IF t = <<>> THEN <<>>
  ELSE LET j == firstCloseBrace(t)
       IN  IF t[1] = "$" /\ Len(t) >= 2 /\ t[2] = "{" /\ j > 0
             THEN <<[interp |-> TRUE, text |-> SubSeq(t, 3, j - 1)]>>
                    \o parseTemplate(SubSeq(t, j + 1, Len(t)))
             ELSE <<[interp |-> FALSE, text |-> <<t[1]>>]>>
                    \o parseTemplate(Tail(t))

\* a valid identifier: a first character in [A-Za-z_$], then [A-Za-z0-9_$]*
IsIdentifier(s) ==
  /\ Len(s) > 0
  /\ IsLetter(s[1]) \/ s[1] \in {"_", "$"}
  /\ \A i \in 2..Len(s) : IsWordChar(s[i])

IsNumber(s) == Len(s) > 0 /\ \A i \in 1..Len(s) : IsDigit(s[i])

(***************************************************************************)
(* What the emitted method does when the generated module is loaded and    *)
(* the method called: the meaning JavaScript gives the statements of       *)
(* lines 202-290.                                                          *)
(***************************************************************************)
S_undefined == <<"u","n","d","e","f","i","n","e","d">>
\* String(v), as a template literal and encodeURIComponent apply it
toString(v) == IF v = Undefined THEN S_undefined ELSE v

\* encodeURIComponent on one character: letters, digits and - _ . ! ~ * ' ( )
\* stand for themselves, the others are percent-encoded
encodeChar(c) ==
  IF IsAlnum(c) \/ c \in {"-", "_", ".", "!", "~", "*", "'", "(", ")"} THEN <<c>>
  ELSE CASE c = " " -> <<"%", "2", "0">>
         [] c = "#" -> <<"%", "2", "3">>
         [] c = "$" -> <<"%", "2", "4">>
         [] c = "%" -> <<"%", "2", "5">>
         [] c = "&" -> <<"%", "2", "6">>
         [] c = "+" -> <<"%", "2", "B">>
         [] c = "," -> <<"%", "2", "C">>
         [] c = "/" -> <<"%", "2", "F">>
         [] c = ":" -> <<"%", "3", "A">>
         [] c = "=" -> <<"%", "3", "D">>
         [] c = "?" -> <<"%", "3", "F">>
         [] c = "@" -> <<"%", "4", "0">>
encodeURIComponent(v) ==
  LET str == toString(v) IN joinEmpty([i \in 1..Len(str) |-> encodeChar(str[i])])

\* the identifiers `const { ... } = params` declares
declaredIds(code) == {code.destructure[i].id : i \in 1..Len(code.destructure)}

\* the expressions substituted into the URL template
urlExpressions(code) ==
  LET parts == parseTemplate(code.url)
  IN  {parts[i].text : i \in {j \in 1..Len(parts) : parts[j].interp}}

\* whether the method's text is JavaScript at all: the name after `client.`
\* is an identifier name, every destructuring entry is an identifier and none
\* is declared twice in the one const statement, and every substituted
\* expression is an identifier or a number
methodParses(code) ==
  /\ IsIdentifier(code.target)
  /\ \A i \in 1..Len(code.destructure) : IsIdentifier(code.destructure[i].id)
  /\ \A i, j \in 1..Len(code.destructure) :
       code.destructure[i].id = code.destructure[j].id => i = j
  /\ \A e \in urlExpressions(code) : IsIdentifier(e) \/ IsNumber(e)

\* an object literal evaluated: a key written twice keeps its first place
\* and takes its last value
RECURSIVE evalLiteral(_, _)
evalLiteral(entries, sofar) ==
  IF entries = <<>> THEN sofar
  ELSE LET e == Head(entries)
           seen == \E i \in 1..Len(sofar) : sofar[i].key = e.key
           next == IF seen
                     THEN [i \in 1..Len(sofar) |->
                             IF sofar[i].key = e.key THEN e ELSE sofar[i]]
                     ELSE Append(sofar, e)
       IN  evalLiteral(Tail(entries), next)

\* the call client.name(params) with BASE_URL as the factory set it: the
\* options record handed to request(), or the error thrown
invoke(code, BASE_URL, params) ==
  LET ids == declaredIds(code)
      \* a destructured identifier takes params' property, else undefined
      valueOf(id) == IF id \in DOMAIN params THEN params[id] ELSE Undefined
      parts == parseTemplate(code.url)
      unbound == {e \in urlExpressions(code) :
                    IsIdentifier(e) /\ e \notin ids /\ e # S_BASE_URL}
      partText(part) ==
        IF ~part.interp THEN part.text
        ELSE IF part.text \in ids THEN toString(valueOf(part.text))
        ELSE IF part.text = S_BASE_URL THEN BASE_URL
        ELSE part.text
      url0 == joinEmpty([i \in 1..Len(parts) |-> partText(parts[i])])
      pushed == SelectSeq(code.query, LAMBDA q : valueOf(q.id) # Undefined)
      queryString == [i \in 1..Len(pushed) |->
                        pushed[i].name \o <<"=">>
                          \o encodeURIComponent(valueOf(pushed[i].id))]
      url == IF Len(queryString) > 0
               THEN url0 \o <<"?">> \o join(queryString, <<"&">>)
               ELSE url0
      options == evalLiteral(code.options, <<>>)
      has(key) == \E i \in 1..Len(options) : options[i].key = key
      prop(key) == options[CHOOSE i \in 1..Len(options) : options[i].key = key]
      headerOf(entries) ==
        LET h == evalLiteral(entries, <<>>)
        IN  [i \in 1..Len(h) |->
               [key |-> h[i].key,
                value |-> IF h[i].literal THEN h[i].text ELSE valueOf(h[i].text)]]
  IN  IF unbound # {} THEN [error |-> "ReferenceError"]
      ELSE [error |-> "none",
            url |-> url,
            method |-> prop("method").text,
            hasHeader |-> has("header"),
            header |-> IF has("header") THEN headerOf(prop("header").entries)
                       ELSE <<>>,
            hasData |-> has("data"),
            data |-> IF has("data") THEN valueOf(prop("data").text) ELSE Undefined]

(***************************************************************************)
(* State.  Each specification below runs one part of the program and       *)
(* leaves the variables of the other parts idle.                           *)
(***************************************************************************)
VARIABLES
  nName, nOnce, nTwice,                \* normalizeParamName: input, f(x), f(f(x))
  pMethod, pPath, pOperationId, pName, \* the naming of one operation
  uPath, uTemplate,                    \* the URL template of one path
  tSchema, tType,                      \* the type inferred for one schema node
  gEndpoint, gOperation,               \* one operation: its method and path, its object
  gBaseUrl, gConfig,                   \* base URL at generation, config.baseUrl at run time
  gFunction,                           \* what generateFunction returned for it
  gParams, gResult,                    \* one call of the emitted method and its outcome
  spec, cliBaseUrl,                    \* the parsed document, options.baseUrl
  pc, exitCode,                        \* where convertOpenApiToWxRequest is, process.exit
  baseUrl,                             \* line 44
  pathIndex, keyIndex,                 \* the two loops of generateJavaScriptModule
  functionDefinitions, exportedFunctions,
  outputCode, outputFile,              \* the module text, the file written
  client                               \* what createClient() of the written module returns

nVars == <<nName, nOnce, nTwice>>
pVars == <<pMethod, pPath, pOperationId, pName>>
uVars == <<uPath, uTemplate>>
tVars == <<tSchema, tType>>
gVars == <<gEndpoint, gOperation, gBaseUrl, gConfig, gFunction, gParams, gResult>>
dVars == <<spec, cliBaseUrl, pc, exitCode, baseUrl, pathIndex, keyIndex,
           functionDefinitions, exportedFunctions, outputCode, outputFile, client>>
vars == <<nVars, pVars, uVars, tVars, gVars, dVars>>

nIdle == nName = None /\ nOnce = None /\ nTwice = None
pIdle == pMethod = None /\ pPath = None /\ pOperationId = None /\ pName = None
uIdle == uPath = None /\ uTemplate = None
tIdle == tSchema = Absent /\ tType = None
NotYet == [notYet |-> TRUE]
gIdle ==
  /\ gEndpoint = NotYet /\ gOperation = NotYet /\ gBaseUrl = None /\ gConfig = None
  /\ gFunction = NotYet /\ gParams = NotYet /\ gResult = NotYet
dIdle ==
  /\ spec = NotYet /\ cliBaseUrl = None /\ pc = "idle" /\ exitCode = 0
  /\ baseUrl = None /\ pathIndex = 0 /\ keyIndex = 0
  /\ functionDefinitions = <<>> /\ exportedFunctions = <<>>
  /\ outputCode = NotYet /\ outputFile = NotYet /\ client = NotYet

(***************************************************************************)
(* Probe of normalizeParamName: a name is drawn, the function is applied   *)
(* to it, and applied again to its own result.                             *)
(***************************************************************************)
\* characters of the names tried: a lower and an upper case letter, a digit,
\* the two separators, the dollar sign and one character outside [A-Za-z0-9_$]
NameAlphabet == {"a", "B", "1", "_", "-", "$", "."}

NormalizeInit ==
  /\ nName \in Strings(NameAlphabet, 1, MaxNameLen)
  /\ nOnce = None
  /\ nTwice = None
  /\ pIdle /\ uIdle /\ tIdle /\ gIdle /\ dIdle

NormalizeOnce ==
  /\ nOnce = None
  /\ nOnce' = normalizeParamName(nName)
  /\ UNCHANGED <<nName, nTwice, pVars, uVars, tVars, gVars, dVars>>

NormalizeTwice ==
  /\ nOnce # None
  /\ nTwice = None
  /\ nTwice' = normalizeParamName(nOnce)
  /\ UNCHANGED <<nName, nOnce, pVars, uVars, tVars, gVars, dVars>>

NormalizeNext == NormalizeOnce \/ NormalizeTwice

SpecNormalize == NormalizeInit /\ [][NormalizeNext]_vars

(***************************************************************************)
(* Probe of the naming of an operation (line 190): a method, a path and an *)
(* operationId are drawn and the function name is derived.                 *)
(***************************************************************************)
PathAlphabet == {"/", "{", "}", "a", "B"}
S_get == <<"g","e","t">>
S_post == <<"p","o","s","t">>
S_listMoment == <<"l","i","s","t","M","o","m","e","n","t">>
\* the path of the README's example operation
S_momentListPath == <<"/","m","o","m","e","n","t","/","l","i","s","t">>

FunctionNameInit ==
  /\ pMethod \in {S_get, S_post}
  /\ pPath \in Strings(PathAlphabet, 1, MaxNamePathLen) \cup {S_momentListPath}
  /\ pOperationId \in {Undefined, <<>>, S_listMoment}
  /\ pName = None
  /\ nIdle /\ uIdle /\ tIdle /\ gIdle /\ dIdle

GenerateFunctionName ==
  /\ pName = None
  /\ pName' = functionNameOf(pOperationId, pMethod, pPath)
  /\ UNCHANGED <<pMethod, pPath, pOperationId, nVars, uVars, tVars, gVars, dVars>>

FunctionNameNext == GenerateFunctionName

SpecFunctionName == FunctionNameInit /\ [][FunctionNameNext]_vars

(***************************************************************************)
(* Probe of the URL template: a path is drawn and its template emitted.    *)
(***************************************************************************)
UrlAlphabet == {"/", "{", "}", "a", "-"}

UrlTemplateInit ==
  /\ uPath \in {<<"/">> \o b : b \in Strings(UrlAlphabet, 0, MaxUrlPathLen)}
  /\ uTemplate = None
  /\ nIdle /\ pIdle /\ tIdle /\ gIdle /\ dIdle

GenerateUrlTemplate ==
  /\ uTemplate = None
  /\ uTemplate' = urlTemplate(uPath)
  /\ UNCHANGED <<uPath, nVars, pVars, tVars, gVars, dVars>>

UrlTemplateNext == GenerateUrlTemplate

SpecUrlTemplate == UrlTemplateInit /\ [][UrlTemplateNext]_vars

(***************************************************************************)
(* Probe of type inference: a schema node is drawn, resolved against the   *)
(* document and its type inferred, as generateJSDoc does for a parameter.  *)
(***************************************************************************)
SchemaTypeInit ==
  /\ tSchema \in SchemasOfDepth(MaxSchemaDepth)
  /\ tType = None
  /\ nIdle /\ pIdle /\ uIdle /\ gIdle /\ dIdle

InferType ==
  /\ tType = None
  /\ tType' = typeOfSchema(SchemaDoc, tSchema)
  /\ UNCHANGED <<tSchema, nVars, pVars, uVars, gVars, dVars>>

SchemaTypeNext == InferType

SpecSchemaType == SchemaTypeInit /\ [][SchemaTypeNext]_vars

(***************************************************************************)
(* One operation through generateFunction and one call of the method it    *)
(* emits.  The operation is drawn from the parameters, request bodies and  *)
(* endpoints below; the call's params object gives each destructured       *)
(* identifier a value or leaves it undefined.                              *)
(***************************************************************************)
S_lastId == <<"l","a","s","t","I","d">>
S_size == <<"s","i","z","e">>
S_XToken == <<"X","-","T","o","k","e","n">>

ParamCatalog ==
  {[name |-> S_lastId, in |-> "query", schema |-> [type |-> "integer"]],
   [name |-> S_size, in |-> "query", required |-> FALSE,
    schema |-> [type |-> "integer"]],
   [name |-> <<"q","-","x">>, in |-> "query", required |-> TRUE,
    schema |-> [ref |-> RefTo(S_Nope)]],
   [name |-> <<"q","_","x">>, in |-> "query", schema |-> [type |-> "string"]],
   [name |-> S_XToken, in |-> "header", schema |-> [type |-> "string"]],
   [name |-> <<"x","_","i","d">>, in |-> "header", required |-> TRUE],
   [name |-> <<"i","d">>, in |-> "path", required |-> TRUE,
    schema |-> [type |-> "integer"]]}

\* request bodies: none; JSON declared before XML; XML alone, without a
\* schema; a content mapping with no entry
BodyCatalog ==
  {Absent,
   [required |-> TRUE,
    content |-> <<[key |-> S_applicationJson,
                   value |-> [schema |-> [ref |-> RefTo(S_Obj)]]],
                  [key |-> S_applicationXml,
                   value |-> [schema |-> [type |-> "string"]]]>>],
   [content |-> <<[key |-> S_applicationXml, value |-> [example |-> "x"]]>>],
   [content |-> <<>>]}

EndpointCatalog ==
  {[method |-> S_get, path |-> S_momentListPath],
   [method |-> S_post, path |-> <<"/","u","/","{","i","d","}">>]}

\* parameter lists: distinct entries of the catalog, in any order
ParamLists ==
  {ps \in UNION {[1..n -> ParamCatalog] : n \in 0..MaxParams} :
     \A i, j \in 1..Len(ps) : ps[i] = ps[j] => i = j}

Operations ==
  {[parameters |-> ps] : ps \in ParamLists}
    \cup {[parameters |-> ps, requestBody |-> b] :
            ps \in ParamLists, b \in BodyCatalog \ {Absent}}

\* the values a caller gives a field of params: none, one that is its own
\* encoding, one that is not
ArgValues == {Undefined, <<"5">>, <<"a", "&">>}
\* the params objects of a call of a method declaring these identifiers
ParamsFor(ids) ==
  {ps \in [ids -> ArgValues] :
     S_requestData \in ids => ps[S_requestData] \in {Undefined, <<"5">>}}
\* the base URL the generator was given and the one the caller configures
BaseUrlCatalog ==
  {[baseUrl |-> <<>>, config |-> Undefined],
   [baseUrl |-> <<"h">>, config |-> Undefined],
   [baseUrl |-> <<"h">>, config |-> <<"o">>]}

MethodInit ==
  /\ gEndpoint \in EndpointCatalog
  /\ gOperation \in Operations
  /\ \E b \in BaseUrlCatalog : gBaseUrl = b.baseUrl /\ gConfig = b.config
  /\ gFunction = NotYet
  /\ gParams = NotYet
  /\ gResult = NotYet
  /\ nIdle /\ pIdle /\ uIdle /\ tIdle /\ dIdle

\* generateFunction returns the method, or throws
GenerateMethod ==
  /\ gFunction = NotYet
  /\ gFunction' = generateFunction(SchemaDoc, gEndpoint.path, gEndpoint.method,
                                   gOperation)
  /\ UNCHANGED <<gEndpoint, gOperation, gBaseUrl, gConfig, gParams, gResult,
                 nVars, pVars, uVars, tVars, dVars>>

\* line 119: const BASE_URL = config.baseUrl || "<baseUrl>"
baseUrlOf(configBaseUrl, generatedBaseUrl) ==
  IF truthy(configBaseUrl) THEN configBaseUrl ELSE generatedBaseUrl

\* the emitted text is not JavaScript: loading the module fails
LoadMethodFails ==
  /\ gFunction # NotYet /\ gFunction # Thrown
  /\ gResult = NotYet
  /\ ~methodParses(gFunction.code)
  /\ gResult' = [error |-> "SyntaxError"]
  /\ UNCHANGED <<gEndpoint, gOperation, gBaseUrl, gConfig, gFunction, gParams,
                 nVars, pVars, uVars, tVars, dVars>>

\* client.name(params)
CallMethod ==
  /\ gFunction # NotYet /\ gFunction # Thrown
  /\ gResult = NotYet
  /\ methodParses(gFunction.code)
  /\ \E params \in ParamsFor(declaredIds(gFunction.code)) :
       /\ gParams' = [args |-> params]
       /\ gResult' = invoke(gFunction.code, baseUrlOf(gConfig, gBaseUrl), params)
  /\ UNCHANGED <<gEndpoint, gOperation, gBaseUrl, gConfig, gFunction,
                 nVars, pVars, uVars, tVars, dVars>>

MethodNext == GenerateMethod \/ LoadMethodFails \/ CallMethod

SpecMethod == MethodInit /\ [][MethodNext]_vars

(***************************************************************************)
(* The documents handed to the driver.                                     *)
(***************************************************************************)
S_parameters == <<"p","a","r","a","m","e","t","e","r","s">>
\* line 76
HttpMethods ==
  {S_get, S_post, <<"p","u","t">>, <<"d","e","l","e","t","e">>,
   <<"p","a","t","c","h">>, <<"h","e","a","d">>, <<"o","p","t","i","o","n","s">>}

\* a value of the openapi field that is not a string (YAML's 3.0 is a number)
NumberValue == <<"(number)">>


JsonContent(schema) == <<[key |-> S_applicationJson, value |-> [schema |-> schema]]>>

\* the README's operation: two optional query parameters, an array returned
opList ==
  [parameters |-> <<[name |-> S_lastId, in |-> "query", schema |-> [type |-> "integer"]],
                    [name |-> S_size, in |-> "query", schema |-> [type |-> "integer"]]>>,
   responses |-> [code \in {"200"} |->
                    [content |-> JsonContent([type |-> "array",
                                              items |-> [ref |-> RefTo(S_Foo)]])]]]
\* an operationId equal to the name derived for GET /moment/list
opNamed ==
  [operationId |-> <<"g","e","t","m","o","m","e","n","t","L","i","s","t">>,
   parameters |-> <<[name |-> S_XToken, in |-> "header", required |-> TRUE]>>,
   requestBody |-> [required |-> TRUE,
                    content |-> JsonContent([ref |-> RefTo(S_Obj)])]]
\* a reference that cannot be walked, a parameter without a schema
opBadRef ==
  [parameters |-> <<[name |-> <<"q","-","x">>, in |-> "query",
                     schema |-> [ref |-> RefTo(S_Nope)]],
                    [name |-> <<"i","d">>, in |-> "path", required |-> TRUE]>>]
\* a request body whose content entry has no schema
opBodyNoSchema ==
  [requestBody |-> [content |-> <<[key |-> S_applicationXml,
                                   value |-> [example |-> "x"]]>>]]
\* a request body with an empty content mapping, and one with none
opBodyEmptyContent == [requestBody |-> [content |-> <<>>]]
opBodyNoContent == [requestBody |-> [required |-> TRUE]]
\* a schema that refers to itself
opLoop ==
  [parameters |-> <<[name |-> <<"i","d">>, in |-> "path", required |-> TRUE,
                     schema |-> [ref |-> RefTo(S_Loop)]]>>]
\* an operationId that is no identifier
opDashed == [operationId |-> <<"a","-","b">>]
\* a 200 response with an empty content mapping
opResponseEmptyContent ==
  [responses |-> [code \in {"200"} |-> [content |-> <<>>]]]


\* path items: the entries of spec.paths, each with its keys in order
PathItemCatalog ==
  {[key |-> S_momentListPath,
    value |-> <<[key |-> S_get, value |-> opList]>>],
   [key |-> <<"/","m","o","m","e","n","t","/","L","i","s","t">>,
    value |-> <<[key |-> S_parameters, value |-> [description |-> "shared"]],
                [key |-> S_get, value |-> opBodyNoSchema]>>],
   [key |-> <<"/","a">>,
    value |-> <<[key |-> S_post, value |-> opNamed]>>],
   [key |-> <<"/","u","/","{","i","d","}">>,
    value |-> <<[key |-> S_get, value |-> opBadRef],
                [key |-> <<"d","e","l","e","t","e">>, value |-> opList]>>],
   [key |-> <<"/","e","/","{","i","d","}">>,
    value |-> <<[key |-> <<"d","e","l","e","t","e">>, value |-> opLoop]>>],
   [key |-> <<"/","b">>,
    value |-> <<[key |-> <<"p","u","t">>, value |-> opBodyEmptyContent]>>],
   [key |-> <<"/","c">>,
    value |-> <<[key |-> <<"p","a","t","c","h">>, value |-> opBodyNoContent]>>],
   [key |-> <<"/","d">>,
    value |-> <<[key |-> S_get, value |-> opResponseEmptyContent]>>],
   [key |-> <<"/","f">>,
    value |-> <<[key |-> <<"h","e","a","d">>, value |-> opDashed]>>]}

\* spec.paths: path items with distinct paths, in any order
PathLists ==
  {ps \in UNION {[1..n -> PathItemCatalog] : n \in 0..MaxPaths} :
     \A i, j \in 1..Len(ps) : ps[i].key = ps[j].key => i = j}

OpenapiValues ==
  {<<"3",".","0",".","1">>, <<"3",".","0">>, <<"3",".","1",".","0">>,
   <<"2",".","0">>, <<>>, NumberValue}


Documents ==
  LET full == {[openapi |-> v, info |-> [title |-> "API", version |-> "1"], paths |-> ps, components |-> [schemas |-> ComponentSchemas]] :
                 v \in OpenapiValues, ps \in PathLists}
      served == {[openapi |-> <<"3",".","0",".","1">>, info |-> [title |-> "API", version |-> "1"], paths |-> ps,
                  components |-> [schemas |-> ComponentSchemas],
                  servers |-> <<[url |-> <<"s">>]>>] : ps \in PathLists}
      noVersion == {[info |-> [title |-> "API", version |-> "1"], paths |-> ps, components |-> [schemas |-> ComponentSchemas]] :
                      ps \in PathLists}
      noInfo == {[openapi |-> <<"3",".","0",".","1">>, paths |-> ps,
                  components |-> [schemas |-> ComponentSchemas]] : ps \in PathLists}
      noPaths == {[openapi |-> <<"3",".","0",".","1">>, info |-> [title |-> "API", version |-> "1"],
                   components |-> [schemas |-> ComponentSchemas]]}
  IN  full \cup served \cup noVersion \cup noInfo \cup noPaths

(***************************************************************************)
(* convertOpenApiToWxRequest (source lines 30-56) and                      *)
(* generateJavaScriptModule (lines 64-94), step by step.  Any exception    *)
(* lands in the catch of line 52, which exits with code 1.                 *)
(***************************************************************************)
\* String.prototype.startsWith
startsWith(str, prefix) ==
  Len(str) >= Len(prefix) /\ SubSeq(str, 1, Len(prefix)) = prefix

\* a check that lets every document with an openapi field through
versionCheckAnyVersion(doc) ==
  IF "openapi" \notin DOMAIN doc \/ ~truthy(doc.openapi) THEN "unsupported"
  ELSE "supported"

\* line 39: "supported", "unsupported" (the throw of line 40), or "throws"
\* (startsWith is not a function of a number)
versionCheck(doc) ==
  IF "openapi" \notin DOMAIN doc \/ ~truthy(doc.openapi) THEN "unsupported"
  ELSE IF doc.openapi = NumberValue THEN "throws"
  ELSE IF startsWith(doc.openapi, <<"3", ".", "0">>) THEN "supported"
  ELSE "unsupported"

\* line 44: options.baseUrl || (spec.servers && spec.servers[0] &&
\* spec.servers[0].url) || ''
baseUrlFor(optionsBaseUrl, doc) ==
  IF truthy(optionsBaseUrl) THEN optionsBaseUrl
  ELSE IF "servers" \in DOMAIN doc /\ Len(doc.servers) > 0
          /\ "url" \in DOMAIN doc.servers[1] /\ truthy(doc.servers[1].url)
    THEN doc.servers[1].url
  ELSE <<>>

DriverInit ==
  /\ spec \in Documents
  /\ cliBaseUrl \in {Undefined, <<"c">>}
  /\ pc = "validate"
  /\ exitCode = 0
  /\ baseUrl = None
  /\ pathIndex = 0 /\ keyIndex = 0
  /\ functionDefinitions = <<>> /\ exportedFunctions = <<>>
  /\ outputCode = NotYet /\ outputFile = NotYet
  /\ client = NotYet
  /\ nIdle /\ pIdle /\ uIdle /\ tIdle /\ gIdle

\* lines 52-55
catch == pc' = "exited" /\ exitCode' = 1

\* lines 38-44
ValidateVersion ==
  /\ pc = "validate"
  /\ IF versionCheck(spec) = "supported"
       THEN /\ baseUrl' = baseUrlFor(cliBaseUrl, spec)
            /\ pc' = "header"
            /\ UNCHANGED exitCode
       ELSE /\ catch
            /\ UNCHANGED baseUrl
  /\ UNCHANGED <<spec, cliBaseUrl, pathIndex, keyIndex, functionDefinitions,
                 exportedFunctions, outputCode, outputFile, client,
                 nVars, pVars, uVars, tVars, gVars>>

\* lines 66-73: the header reads spec.info.title, the loop Object.entries(spec.paths)
StartModule ==
  /\ pc = "header"
  /\ IF "info" \in DOMAIN spec /\ "paths" \in DOMAIN spec
       THEN /\ pc' = "paths"
            /\ pathIndex' = 1 /\ keyIndex' = 1
            /\ UNCHANGED exitCode
       ELSE /\ catch
            /\ UNCHANGED <<pathIndex, keyIndex>>
  /\ UNCHANGED <<spec, cliBaseUrl, baseUrl, functionDefinitions, exportedFunctions,
                 outputCode, outputFile, client, nVars, pVars, uVars, tVars, gVars>>

\* line 73: the path item is exhausted, on to the next path
NextPath ==
  /\ pc = "paths"
  /\ pathIndex <= Len(spec.paths)
  /\ keyIndex > Len(spec.paths[pathIndex].value)
  /\ pathIndex' = pathIndex + 1 /\ keyIndex' = 1
  /\ UNCHANGED <<spec, cliBaseUrl, pc, exitCode, baseUrl, functionDefinitions,
                 exportedFunctions, outputCode, outputFile, client,
                 nVars, pVars, uVars, tVars, gVars>>

\* lines 76-78: a key that is not an HTTP method is skipped
SkipKey ==
  /\ pc = "paths"
  /\ pathIndex <= Len(spec.paths)
  /\ keyIndex <= Len(spec.paths[pathIndex].value)
  /\ spec.paths[pathIndex].value[keyIndex].key \notin HttpMethods
  /\ keyIndex' = keyIndex + 1
  /\ UNCHANGED <<spec, cliBaseUrl, pc, exitCode, baseUrl, pathIndex,
                 functionDefinitions, exportedFunctions, outputCode, outputFile,
                 client, nVars, pVars, uVars, tVars, gVars>>

\* a slip: the definition put in front of the ones already there
addDefinitionFirst(definitions, definition) == <<definition>> \o definitions

\* lines 81-82: Array.prototype.push
addDefinition(definitions, definition) == Append(definitions, definition)

\* lines 80-82: one operation through generateFunction
GenerateOperation ==
  /\ pc = "paths"
  /\ pathIndex <= Len(spec.paths)
  /\ keyIndex <= Len(spec.paths[pathIndex].value)
  /\ spec.paths[pathIndex].value[keyIndex].key \in HttpMethods
  /\ LET functionInfo == generateFunction(spec, spec.paths[pathIndex].key,
                                          spec.paths[pathIndex].value[keyIndex].key,
                                          spec.paths[pathIndex].value[keyIndex].value)
     IN  IF functionInfo = Thrown
           THEN /\ catch
                /\ UNCHANGED <<keyIndex, functionDefinitions, exportedFunctions>>
           ELSE /\ functionDefinitions' =
                     addDefinition(functionDefinitions, functionInfo.code)
                /\ exportedFunctions' = Append(exportedFunctions, functionInfo.name)
                /\ keyIndex' = keyIndex + 1
                /\ UNCHANGED <<pc, exitCode>>
  /\ UNCHANGED <<spec, cliBaseUrl, baseUrl, pathIndex, outputCode, outputFile,
                 client, nVars, pVars, uVars, tVars, gVars>>

\* lines 86-93: the header, the definitions in the order pushed, the export
FinishModule ==
  /\ pc = "paths"
  /\ pathIndex > Len(spec.paths)
  /\ outputCode' = [baseUrl |-> baseUrl, definitions |-> functionDefinitions]
  /\ pc' = "write"
  /\ UNCHANGED <<spec, cliBaseUrl, exitCode, baseUrl, pathIndex, keyIndex,
                 functionDefinitions, exportedFunctions, outputFile, client,
                 nVars, pVars, uVars, tVars, gVars>>

\* lines 50-51
WriteOutput ==
  /\ pc = "write"
  /\ outputFile' = outputCode
  /\ pc' = "done"
  /\ UNCHANGED <<spec, cliBaseUrl, exitCode, baseUrl, pathIndex, keyIndex,
                 functionDefinitions, exportedFunctions, outputCode, client,
                 nVars, pVars, uVars, tVars, gVars>>

(***************************************************************************)
(* The written module at run time: createClient(config) (lines 117-152 and *)
(* 90) runs the `client.name = function ...` statements in the order they  *)
(* were written and returns the client object.                             *)
(***************************************************************************)
\* the statements `client.<target> = <method>` run in order: assigning to
\* a name that is already a property replaces its value
assignAll(definitions) ==
  evalLiteral([i \in 1..Len(definitions) |->
                 [key |-> definitions[i].target, method |-> definitions[i]]], <<>>)

CreateClient ==
  /\ pc = "done"
  /\ client = NotYet
  /\ \E config \in {Undefined, <<"o">>} :
       client' =
         IF \A i \in 1..Len(outputFile.definitions) :
              methodParses(outputFile.definitions[i])
           THEN [error |-> "none",
                 BASE_URL |-> baseUrlOf(config, outputFile.baseUrl),
                 methods |-> assignAll(outputFile.definitions)]
           ELSE [error |-> "SyntaxError"]
  /\ UNCHANGED <<spec, cliBaseUrl, pc, exitCode, baseUrl, pathIndex, keyIndex,
                 functionDefinitions, exportedFunctions, outputCode, outputFile,
                 nVars, pVars, uVars, tVars, gVars>>

Next ==
  \/ ValidateVersion
  \/ StartModule
  \/ NextPath
  \/ SkipKey
  \/ GenerateOperation
  \/ FinishModule
  \/ WriteOutput
  \/ CreateClient

Spec == DriverInit /\ [][Next]_vars

\* a step of the driver itself (lines 30-56)
DriverStep ==
  \/ ValidateVersion
  \/ StartModule
  \/ NextPath
  \/ SkipKey
  \/ GenerateOperation
  \/ FinishModule
  \/ WriteOutput

\* the driver has a step to take: it has neither exited (line 54) nor
\* returned (line 51)
Running == pc \in {"validate", "header", "paths", "write"}

\* the driver is one sequential run: while it has a step to take, it takes
\* it (weak fairness of DriverStep, which is enabled exactly when Running).
\* When the written module's factory is called is up to whoever requires it.
SpecRun ==
  /\ DriverInit
  /\ [][Next]_vars
  /\ ([]<>(~Running) \/ []<><<DriverStep>>_vars)

(***************************************************************************)
(* Path templates as the claims speak of them: a leading slash, and        *)
(* placeholders {name} with a non-empty name free of braces and slashes.   *)
(* These definitions read the path by position and do not use the model of *)
(* the regular expression.                                                 *)
(***************************************************************************)
IndicesOf(s, c) == {i \in 1..Len(s) : s[i] = c}
\* the k-th smallest element of a set of numbers
NthOf(S, k) == CHOOSE x \in S : Cardinality({y \in S : y <= x}) = k

IsPathTemplate(p) ==
  LET open == IndicesOf(p, "{")
      close == IndicesOf(p, "}")
      n == Cardinality(open)
  IN  /\ Len(p) >= 1
      /\ p[1] = "/"
      /\ Cardinality(close) = n
      /\ \A k \in 1..n :
           /\ NthOf(open, k) + 1 < NthOf(close, k)
           /\ \A m \in (NthOf(open, k) + 1)..(NthOf(close, k) - 1) :
                p[m] \notin {"{", "/"}
           /\ k < n => NthOf(close, k) < NthOf(open, k + 1)

PlaceholderCount(p) == Cardinality(IndicesOf(p, "{"))
PlaceholderName(p, k) ==
  SubSeq(p, NthOf(IndicesOf(p, "{"), k) + 1, NthOf(IndicesOf(p, "}"), k) - 1)

NotBrace(c) == c \notin {"{", "}"}

\* the segments of a path as the claim describes them: leading slash
\* stripped, braces removed, cut at every slash
ClaimedSegments(p) ==
  LET bare == SelectSeq(IF p[1] = "/" THEN Tail(p) ELSE p, NotBrace)
      cuts == IndicesOf(bare, "/")
      m == Cardinality(cuts)
      from(k) == IF k = 1 THEN 1 ELSE NthOf(cuts, k - 1) + 1
      to(k) == IF k = m + 1 THEN Len(bare) ELSE NthOf(cuts, k) - 1
  IN  [k \in 1..(m + 1) |-> SubSeq(bare, from(k), to(k))]

\* first segment lowercased; each later one with its first letter
\* capitalized and the rest either lowercased or left as written
ClaimedName(method, p, lowerRest) ==
  LET segs == ClaimedSegments(p)
      part(k) ==
        IF k = 1 THEN toLowerCase(segs[k])
        ELSE IF segs[k] = <<>> THEN <<>>
        ELSE <<toUpperCaseChar(segs[k][1])>>
               \o (IF lowerRest THEN toLowerCase(Tail(segs[k])) ELSE Tail(segs[k]))
  IN  toLowerCase(method) \o joinEmpty([k \in 1..Len(segs) |-> part(k)])

(***************************************************************************)
(* Claims about normalizeParamName.                                        *)
(***************************************************************************)
\* C6: normalizeParamName is idempotent: normalizing a normalized name
\* gives the same name again.
C6_NormalizeIdempotent == (nTwice # None) => (nTwice = nOnce)

\* C7: the result of normalizeParamName is a valid identifier: it starts
\* with a letter, underscore or dollar sign and continues with letters,
\* digits, underscores or dollar signs.
C7_NormalizeIsIdentifier == (nOnce # None) => IsIdentifier(nOnce)

PathParts(t) == Tail(parseTemplate(t))
IsInterp(part) == part.interp

\* C9: for a path template with n placeholders the emitted URL template,
\* after ${BASE_URL}, holds exactly n substitutions, the k-th being the
\* identifier normalizeParamName gives for the k-th placeholder's name and
\* standing where that placeholder stood; every other character of the path
\* is emitted unchanged.
C9_UrlTemplatePlaceholders ==
  (uTemplate # None /\ IsPathTemplate(uPath)) =>
    LET parts == PathParts(uTemplate)
        n == PlaceholderCount(uPath)
        rank(i) == Cardinality({j \in 1..i : parts[j].interp})
        back(i) == IF parts[i].interp
                     THEN <<"{">> \o PlaceholderName(uPath, rank(i)) \o <<"}">>
                     ELSE parts[i].text
    IN  /\ Head(parseTemplate(uTemplate)) = [interp |-> TRUE, text |-> S_BASE_URL]
        /\ Len(SelectSeq(parts, IsInterp)) = n
        /\ \A i \in 1..Len(parts) :
             parts[i].interp =>
               rank(i) <= n /\
               parts[i].text = normalizeParamName(PlaceholderName(uPath, rank(i)))
        /\ joinEmpty([i \in 1..Len(parts) |-> back(i)]) = uPath

\* a template with two distinct placeholders, one of them renamed by
\* normalizeParamName
C9_Witness ==
  /\ uTemplate # None
  /\ uPath = <<"/", "{", "a", "}", "{", "-", "}">>
  /\ PathParts(uTemplate) = << [interp |-> FALSE, text |-> <<"/">>],
                               [interp |-> TRUE, text |-> <<"a">>],
                               [interp |-> TRUE, text |-> <<"_">>] >>

(***************************************************************************)
(* Claims about type inference.                                            *)
(***************************************************************************)
\* C8: the type of an array schema is Array<T>, T being the type inferred
\* from its items after the items node has been resolved against the
\* document (a reference to schema S gives the type S itself yields).
C8_ArrayItemsResolved ==
  (tType # None) =>
    LET resolved == resolveSchema(SchemaDoc, tSchema)
    IN  (/\ resolved # Thrown
         /\ typeField(resolved) = "array"
         /\ "items" \in DOMAIN resolved
         /\ typeOfSchema(SchemaDoc, resolved.items) # S_Throws)
        => tType = S_Array \o <<"<">> \o typeOfSchema(SchemaDoc, resolved.items)
                     \o <<">">>

(***************************************************************************)
(* Claims about a call of an emitted method.  What the claims expect is    *)
(* computed here from the operation object and the params of the call, not *)
(* from the emitted statements.                                            *)
(***************************************************************************)
Called == gResult # NotYet /\ gResult.error = "none"

\* the value the call gives the parameter of that name
ArgOf(name) ==
  LET id == normalizeParamName(name)
  IN  IF id \in DOMAIN gParams.args THEN gParams.args[id] ELSE Undefined

\* the path with each placeholder replaced by the value of its parameter
ClaimedPath(p) ==
  LET n == PlaceholderCount(p)
      open(k) == NthOf(IndicesOf(p, "{"), k)
      close(k) == NthOf(IndicesOf(p, "}"), k)
      between(k) == SubSeq(p, IF k = 0 THEN 1 ELSE close(k) + 1,
                              IF k = n THEN Len(p) ELSE open(k + 1) - 1)
  IN  joinEmpty([i \in 1..(2 * n + 1) |->
                   IF i % 2 = 1 THEN between((i - 1) \div 2)
                   ELSE toString(ArgOf(PlaceholderName(p, i \div 2)))])

\* name=encodedValue for each query parameter with a value, in the order of
\* the operation's parameter list
RECURSIVE ClaimedPairs(_)
ClaimedPairs(ps) ==
  IF ps = <<>> THEN <<>>
  ELSE (IF Head(ps).in = "query" /\ ArgOf(Head(ps).name) # Undefined
          THEN <<Head(ps).name \o <<"=">> \o encodeURIComponent(ArgOf(Head(ps).name))>>
          ELSE <<>>)
         \o ClaimedPairs(Tail(ps))

HasParamIn(location) ==
  \E i \in 1..Len(gOperation.parameters) : gOperation.parameters[i].in = location

\* C2: for an operation with query parameters, the URL a call builds is the
\* base URL, the path, and then "?" with the "&"-joined name=encodedValue
\* pairs of exactly the query parameters whose value is not undefined, in
\* declaration order; with no such parameter there is no "?".  GET
\* /moment/list with optional lastId and size, called with {lastId: 5},
\* gives <base>/moment/list?lastId=5 and method GET.
C2_QueryString ==
  (Called /\ HasParamIn("query")) =>
    LET base == IF truthy(gConfig) THEN gConfig ELSE gBaseUrl
        pairs == ClaimedPairs(gOperation.parameters)
        prefix == base \o ClaimedPath(gEndpoint.path)
    IN  /\ pairs # <<>> => gResult.url = prefix \o <<"?">> \o join(pairs, <<"&">>)
        /\ pairs = <<>> => gResult.url = prefix /\ ~includes(gResult.url, "?")
        /\ (/\ gEndpoint = [method |-> S_get, path |-> S_momentListPath]
            /\ ArgOf(S_lastId) = <<"5">>
            /\ \A i \in 1..Len(gOperation.parameters) :
                 gOperation.parameters[i].name # S_lastId =>
                   ArgOf(gOperation.parameters[i].name) = Undefined)
           => /\ gResult.url = base \o S_momentListPath
                                 \o <<"?">> \o S_lastId \o <<"=", "5">>
              /\ gResult.method = <<"G", "E", "T">>

\* the README's operation, called with {lastId: 5}
C2_Witness ==
  /\ Called
  /\ gEndpoint = [method |-> S_get, path |-> S_momentListPath]
  /\ Len(gOperation.parameters) = 2
  /\ gOperation.parameters[1].name = S_lastId
  /\ gOperation.parameters[2].name = S_size
  /\ gParams.args[S_lastId] = <<"5">>
  /\ gParams.args[S_size] = Undefined
  /\ gBaseUrl = <<"h">> /\ gConfig = Undefined
  /\ gResult.url = <<"h">> \o S_momentListPath \o <<"?">> \o S_lastId \o <<"=", "5">>

\* the entries the claim expects in the header map
ClaimedHeaders ==
  {[key |-> gOperation.parameters[i].name,
    value |-> ArgOf(gOperation.parameters[i].name)] :
     i \in {j \in 1..Len(gOperation.parameters) :
              gOperation.parameters[j].in = "header"}}
    \cup (IF "requestBody" \in DOMAIN gOperation
            THEN {[key |-> S_ContentType,
                   value |-> gOperation.requestBody.content[1].key]}
            ELSE {})

RECURSIVE OperationsOf(_)
OperationsOf(paths) ==
  IF paths = <<>> THEN <<>>
  ELSE LET recognized == SelectSeq(Head(paths).value, LAMBDA e : e.key \in HttpMethods)
       IN  [i \in 1..Len(recognized) |->
              [path |-> Head(paths).key, method |-> recognized[i].key,
               operation |-> recognized[i].value]]
           \o OperationsOf(Tail(paths))

DeclaredOperations == IF "paths" \in DOMAIN spec THEN OperationsOf(spec.paths) ELSE <<>>

\* what synthesis makes of the i-th declared operation
Synthesized(i) ==
  LET o == DeclaredOperations[i]
  IN  generateFunction(spec, o.path, o.method, o.operation)

\* the name the i-th declared operation derives
DerivedName(i) ==
  LET o == DeclaredOperations[i]
  IN  functionNameOf(IF "operationId" \in DOMAIN o.operation
                       THEN o.operation.operationId ELSE Undefined,
                     o.method, o.path)

\* the openapi field is missing or does not start with "3.0"
ClaimedBadVersion ==
  \/ "openapi" \notin DOMAIN spec
  \/ spec.openapi = NumberValue
  \/ ~startsWith(spec.openapi, <<"3", ".", "0">>)

\* an exception is raised during generation
GenerationRaises ==
  \/ "info" \notin DOMAIN spec
  \/ "paths" \notin DOMAIN spec
  \/ \E i \in 1..Len(DeclaredOperations) : Synthesized(i) = Thrown

\* where the run stands agrees with what the document is
WrittenOnlyAfterSynthesis ==
  /\ (pc \in {"write", "done"} \/ outputFile # NotYet) =>
       /\ ~ClaimedBadVersion
       /\ ~GenerationRaises
       /\ functionDefinitions =
            [i \in 1..Len(DeclaredOperations) |-> Synthesized(i).code]
  /\ outputFile # NotYet =>
       outputFile = [baseUrl |-> baseUrl, definitions |-> functionDefinitions]
  /\ (ClaimedBadVersion \/ GenerationRaises) =>
       /\ pc \notin {"write", "done"}
       /\ outputFile = NotYet
  /\ pc = "exited" => exitCode # 0
  /\ pc # "exited" => exitCode = 0

\* C1: the output file is written only after the version check has passed
\* and every operation of the document has been synthesized; when the
\* openapi field is missing or does not start with "3.0", or generation
\* raises an exception, the write step is never reached and the run ends
\* with a non-zero exit code.
C1_WriteOnlyAfterSynthesis ==
  /\ []WrittenOnlyAfterSynthesis
  /\ (ClaimedBadVersion \/ GenerationRaises) ~> (pc = "exited" /\ exitCode # 0)

\* a document with two operations has been written
C1_Witness ==
  /\ pc = "done"
  /\ outputFile # NotYet
  /\ Len(DeclaredOperations) >= 2
  /\ Len(outputFile.definitions) = Len(DeclaredOperations)

\* the last declared operation deriving the name of the i-th
LastDeriving(i) ==
  CHOOSE j \in 1..Len(DeclaredOperations) :
    /\ DerivedName(j) = DerivedName(i)
    /\ \A k \in 1..Len(DeclaredOperations) : DerivedName(k) = DerivedName(i) => k <= j

\* two declared operations derive one name
Collision ==
  \E i, j \in 1..Len(DeclaredOperations) : i < j /\ DerivedName(i) = DerivedName(j)

\* C5: the method definitions are emitted in declaration order under the
\* names the operations derive, none renamed; once the factory has run, the
\* client's entry for a name is the method of the last declared operation
\* deriving it; a collision of names is no reason for generation to fail.
C5_LaterDeclaredWins ==
  /\ pc \in {"write", "done"} =>
       /\ exportedFunctions = [i \in 1..Len(DeclaredOperations) |-> DerivedName(i)]
       /\ Len(functionDefinitions) = Len(DeclaredOperations)
       /\ \A i \in 1..Len(DeclaredOperations) :
            functionDefinitions[i] = Synthesized(i).code
  /\ (client # NotYet /\ client.error = "none") =>
       /\ \A i \in 1..Len(DeclaredOperations) :
            /\ \E k \in 1..Len(client.methods) : client.methods[k].key = DerivedName(i)
            /\ \A k \in 1..Len(client.methods) :
                 client.methods[k].key = DerivedName(i) =>
                   client.methods[k].method = Synthesized(LastDeriving(i)).code
       /\ \A k, l \in 1..Len(client.methods) :
            client.methods[k].key = client.methods[l].key => k = l
  /\ (Collision /\ pc = "exited") => (ClaimedBadVersion \/ GenerationRaises)

\* the factory has run on a module in which two operations with different
\* methods derive one name
C5_Witness ==
  /\ client # NotYet
  /\ client.error = "none"
  /\ \E i, j \in 1..Len(DeclaredOperations) :
       /\ i < j
       /\ DerivedName(i) = DerivedName(j)
       /\ Synthesized(i).code # Synthesized(j).code

\* a schema the claim calls recoverable: none, or a reference to a
\* component the document does not have
ClaimedUnknown(schema) ==
  \/ schema = Absent
  \/ /\ "ref" \in DOMAIN schema
     /\ schema.ref \notin {RefTo(n) : n \in {S_Foo, S_Bar, S_Arr, S_Obj, S_Loop}}

\* the defects of the document are those the claim names, and no other: no
\* schema refers to itself, no 200 response has an empty content mapping
ClaimedRecoverableOnly ==
  /\ ~ClaimedBadVersion
  /\ "info" \in DOMAIN spec
  /\ "paths" \in DOMAIN spec
  /\ \A i \in 1..Len(DeclaredOperations) :
       DeclaredOperations[i].operation \notin {opLoop, opResponseEmptyContent}

\* the i-th method's documentation gives `any` wherever the claim says so
ClaimedAny(i) ==
  LET operation == DeclaredOperations[i].operation
      params == paramsIn(operation, "path") \o paramsIn(operation, "query")
                  \o paramsIn(operation, "header")
      docs == functionDefinitions[i].jsDoc
      body == Get(operation, "requestBody")
      bodySchema ==
        IF body = Absent \/ "content" \notin DOMAIN body \/ body.content = <<>>
          THEN Absent
          ELSE Get(body.content[1].value, "schema")
  IN  /\ \A k \in 1..Len(params) :
           ClaimedUnknown(Get(params[k], "schema")) => docs[k].type = S_any
      /\ (body # Absent /\ ClaimedUnknown(bodySchema)) =>
           docs[Len(params) + 1].type = S_any

\* C10: in a document that passes the version check, an unwalkable $ref, a
\* parameter without a schema and a request body whose content carries no
\* schema (its content mapping empty or absent included) never abort the
\* run: it does not exit, synthesizes every operation, gives `any` at each
\* such place and writes the output.
C10_RecoverableNeverAborts ==
  ClaimedRecoverableOnly =>
    /\ pc # "exited"
    /\ pc \in {"write", "done"} =>
         /\ Len(functionDefinitions) = Len(DeclaredOperations)
         /\ \A i \in 1..Len(DeclaredOperations) : ClaimedAny(i)

(***************************************************************************)
(* The identifiers an emitted method reads.                                *)
(***************************************************************************)
\* the identifiers the method body reads: those substituted into the URL
\* for a placeholder, those of the query statements, those of the header
\* literals
ReadIdentifiers(code) ==
  (urlExpressions(code) \ {S_BASE_URL})
    \cup {code.query[i].id : i \in 1..Len(code.query)}
    \cup UNION {{code.options[k].entries[j].text :
                   j \in {h \in 1..Len(code.options[k].entries) :
                            ~code.options[k].entries[h].literal}} :
                k \in {o \in 1..Len(code.options) : code.options[o].key = "header"}}

\* how many entries of the method's destructuring declare the identifier
DeclarationsOf(code, id) ==
  Cardinality({i \in 1..Len(code.destructure) : code.destructure[i].id = id})

\* C11: in every generated method, each identifier the body reads (for a
\* placeholder of the URL, for a query parameter, for a header parameter) is
\* declared exactly once by the destructuring of the options object, also
\* when a placeholder has no `in: path` parameter of the operation and when
\* two parameters normalize to one identifier.
C11_ReadIdentifiersDeclaredOnce ==
  (gFunction # NotYet /\ gFunction # Thrown) =>
    \A id \in ReadIdentifiers(gFunction.code) :
      DeclarationsOf(gFunction.code, id) = 1

=============================================================================
